---- MODULE Spec2Model ----
(***************************************************************************)
(* Model of cmd/bounce.go (listmonk): the bounce webhook dispatcher        *)
(* handleBounceWebhook with its validator validateBounceFields.            *)
(*                                                                         *)
(* Every inbound webhook call is a process c \in Calls.  A call is read    *)
(* and dispatched in one step (everything up to the end of the `switch`),  *)
(* then performs one Recorder.Record call per step of the `for` loop, and  *)
(* finally answers.  The steps of different calls interleave freely, as    *)
(* the HTTP server runs every handler on its own goroutine.                *)
(*                                                                         *)
(* Strings whose content the code inspects (email, subscriber UUID, meta)  *)
(* are sequences of one-character strings.  A request body is an abstract  *)
(* syntax tree of the bytes: what the JSON decoder / the provider adapters *)
(* would find in them.                                                     *)
(***************************************************************************)
EXTENDS Integers, Sequences, FiniteSets, TLC

\* ------------------------------------------------------------------ bounds
\* Number of webhook calls in flight (handled concurrently when above 1).
NumCalls == 1
\* Largest number of events bundled in one signed-webhook payload.
MaxEvents == 2

Calls == 1..NumCalls

\* Number of webhook calls handled concurrently in the specification of
\* concurrent calls.
NumConcurrent == 2
ConcurrentCalls == 1..NumConcurrent

\* ------------------------------------------------------------ data model
\* Year() of Go's zero time.Time (an unset created_at).
ZeroTimeYear == 1
\* Years a payload can carry in created_at, and years time.Now() can return.
PayloadYears == {ZeroTimeYear, 0, 2021}
NowYears == {2026, 2027}

EmptyStr == << >>
\* E-mail strings a native payload can carry.
Emails == { EmptyStr, <<"a", "@", "b">>, <<"A", "@", "b">>, <<"a", "b">> }
\* Subscriber-UUID strings a native payload can carry.
UUIDs == { EmptyStr, <<"f", "-", "f">>, <<"f", "-", "z">> }
\* Raw JSON of the meta field: absent, or a non-empty object.
Metas == { EmptyStr, <<"{", "k", "}">> }
\* json.RawMessage("{}")
EmptyObject == <<"{", "}">>
Types == { "hard", "soft" }

\* models.Bounce, restricted to the fields the handlers touch.
MkBounce(email, uuid, type, source, meta, year) ==
    [Email |-> email, SubscriberUUID |-> uuid, Type |-> type,
     Source |-> source, Meta |-> meta, CreatedAt |-> year]

\* The zero value of models.Bounce (`var b models.Bounce`).
ZeroBounce == MkBounce(EmptyStr, EmptyStr, "", "", EmptyStr, ZeroTimeYear)

\* What a native caller can put in the JSON object it posts.
NativeInputs ==
    { MkBounce(e, u, t, "api", m, y) :
        e \in Emails, u \in UUIDs, t \in Types, m \in Metas, y \in PayloadYears }

\* ----------------------------------------------------------- raw bodies
\* kind: "garbage" (not JSON), "bounce" (a JSON object with bounce fields),
\* "events" (a JSON array of provider events), "sns" (a relay envelope).
MkBody(kind, b, events) == [kind |-> kind, b |-> b, events |-> events]

Garbage == MkBody("garbage", ZeroBounce, << >>)
BounceBody(b) == MkBody("bounce", b, << >>)
EventsBody(evs) == MkBody("events", ZeroBounce, evs)
\* The record wrapped in a relay notification envelope.
SnsBounce == MkBounce(<<"a", "@", "b">>, EmptyStr, "hard", "ses", <<"{", "k", "}">>, 2021)
SnsBody == MkBody("sns", SnsBounce, << >>)

\* Provider events of a signed-webhook payload.
Events == { "e1", "e2" }
EventLists == UNION { [1..n -> Events] : n \in 0..MaxEvents }


\* ------------------------------------------------------------- requests
\* ECDSA signature of the provider over (timestamp + raw body): the value
\* only the holder of the signing key can produce for that pair.
Sign(ts, raw) == <<ts, raw>>
\* No signature header.
NoSig == << >>
Timestamps == { 1, 2 }

\* Values of the X-Amz-Sns-Message-Type header ("" when absent).
MsgTypes ==
    { "", "SubscriptionConfirmation", "UnsubscribeConfirmation",
      "Notification", "notification" }

\* An inbound call: the :service path parameter, whether reading the body
\* fails, the body, and the headers the handler looks at.
MkReq(service, readErr, body, msgType, sig, ts) ==
    [service |-> service, readErr |-> readErr, body |-> body,
     msgType |-> msgType, sig |-> sig, ts |-> ts]

NoReq == MkReq("-", FALSE, Garbage, "", NoSig, 0)

NativeRequests ==
    { MkReq("", FALSE, body, "", NoSig, 0) :
        body \in { Garbage, SnsBody, EventsBody(<<"e1">>) }
                 \cup { BounceBody(b) : b \in NativeInputs } }
    \cup { MkReq("", TRUE, Garbage, "", NoSig, 0) }

SESRequests ==
    { MkReq("ses", FALSE, body, mt, NoSig, 0) :
        body \in { Garbage, SnsBody }, mt \in MsgTypes }
    \cup { MkReq("ses", TRUE, Garbage, mt, NoSig, 0) : mt \in MsgTypes }

SendgridBodies == { Garbage } \cup { EventsBody(evs) : evs \in EventLists }

\* Signature headers a caller can send with (ts, body): the provider's own
\* signature of exactly that pair, one it made for another timestamp or for
\* another body (a replay), or none.
SigsFor(ts, body) ==
    { Sign(ts, body), NoSig, Sign(ts, Garbage) }
    \cup { Sign(t, body) : t \in Timestamps \ { ts } }

SendgridRequests ==
    UNION { { MkReq("sendgrid", FALSE, body, "", sig, 1) : sig \in SigsFor(1, body) } :
            body \in SendgridBodies }
    \cup { MkReq("sendgrid", TRUE, Garbage, "", sig, 1) : sig \in SigsFor(1, Garbage) }

OtherRequests ==
    { MkReq("postmark", FALSE, body, "Notification", NoSig, 0) :
        body \in { Garbage, SnsBody } }

Requests == NativeRequests \cup SESRequests \cup SendgridRequests \cup OtherRequests

\* ------------------------------------------------------------ responses
MkResp(status, msg) == [status |-> status, msg |-> msg]
\* No response yet / a nil error.
Nil == MkResp(0, "")
\* c.JSON(http.StatusOK, okResp{true})
OkTrue == MkResp(200, "true")
\* echo.NewHTTPError(http.StatusBadRequest, <message>)
BadRequest(msg) == MkResp(400, msg)

\* ------------------------------------------------------------ validator
\* subimporter.IsEmail: a syntactically valid bare address, here exactly
\* one "@" with a non-empty local part and a non-empty domain.
IsEmail(e) ==
    /\ Cardinality({ i \in 1..Len(e) : e[i] = "@" }) = 1
    /\ Len(e) >= 3
    /\ e[1] # "@"
    /\ e[Len(e)] # "@"

\* reUUID.MatchString: the canonical textual pattern, scaled to
\* hex "-" hex.
HexChars == { "f", "4" }
reUUIDMatch(u) ==
    /\ Len(u) = 3
    /\ u[1] \in HexChars
    /\ u[2] = "-"
    /\ u[3] \in HexChars

\* Variant: the UUID is not looked at once the e-mail is present.
validateBounceFieldsEmailOnly(b) ==
    IF b.Email = EmptyStr /\ b.SubscriberUUID = EmptyStr
    THEN BadRequest("globals.messages.invalidData")
    ELSE IF b.Email # EmptyStr /\ ~IsEmail(b.Email)
    THEN BadRequest("globals.messages.invalidEmail")
    ELSE IF b.Email = EmptyStr /\ ~reUUIDMatch(b.SubscriberUUID)
    THEN BadRequest("globals.messages.invalidUUID")
    ELSE Nil

\* Variant: a record carrying both identifiers is refused.
validateBounceFieldsExactlyOne(b) ==
    IF (b.Email = EmptyStr) = (b.SubscriberUUID = EmptyStr)
    THEN BadRequest("globals.messages.invalidData")
    ELSE IF b.Email # EmptyStr /\ ~IsEmail(b.Email)
    THEN BadRequest("globals.messages.invalidEmail")
    ELSE IF b.SubscriberUUID # EmptyStr /\ ~reUUIDMatch(b.SubscriberUUID)
    THEN BadRequest("globals.messages.invalidUUID")
    ELSE Nil

\* validateBounceFields: Nil when the record is accepted, else the error.
validateBounceFields(b) ==
    IF b.Email = EmptyStr /\ b.SubscriberUUID = EmptyStr
    THEN BadRequest("globals.messages.invalidData")
    ELSE IF b.Email # EmptyStr /\ ~IsEmail(b.Email)
    THEN BadRequest("globals.messages.invalidEmail")
    ELSE IF b.SubscriberUUID # EmptyStr /\ ~reUUIDMatch(b.SubscriberUUID)
    THEN BadRequest("globals.messages.invalidUUID")
    ELSE Nil

\* ------------------------------------------------------ native decoding
\* json.Unmarshal(rawReq, &b) into a zero models.Bounce: only a JSON object
\* decodes; fields the object does not carry keep their zero value.
Unmarshal(raw) ==
    CASE raw.kind = "bounce" -> [err |-> FALSE, b |-> raw.b]
      [] raw.kind = "sns"    -> [err |-> FALSE, b |-> ZeroBounce]
      [] OTHER               -> [err |-> TRUE,  b |-> ZeroBounce]

\* strings.ToLower
LowerChar(ch) ==
    CASE ch = "A" -> "a"
      [] ch = "B" -> "b"
      [] OTHER    -> ch
\* Variant: the e-mail is kept as submitted.
ToLowerKept(str) == str
ToLower(str) == [i \in 1..Len(str) |-> LowerChar(str[i])]

\* Variant: an absent meta is left empty.
DefaultMetaKept(meta) == meta

\* if len(b.Meta) == 0 { b.Meta = json.RawMessage("{}") }
DefaultMeta(meta) == IF Len(meta) = 0 THEN EmptyObject ELSE meta

\* if b.CreatedAt.Year() == 0 { b.CreatedAt = time.Now() }
DefaultCreatedAt(year, now) == IF year = 0 THEN now ELSE year

\* The native record after lowercasing and defaulting.
NativeRecord(b, now) ==
    [b EXCEPT !.Email = ToLower(b.Email),
              !.Meta = DefaultMeta(b.Meta),
              !.CreatedAt = DefaultCreatedAt(b.CreatedAt, now)]

\* ------------------------------------------------------------- adapters
\* app.bounce.SES.ProcessSubscription: visits the confirmation URL of the
\* envelope; netOK is whether that outbound call succeeds.
SESProcessSubscription(raw, netOK) ==
    IF raw.kind = "sns" /\ netOK THEN "ok" ELSE "error"

\* app.bounce.SES.ProcessBounce: unwraps a well-formed envelope into one
\* record.
SESProcessBounce(raw) ==
    IF raw.kind = "sns" THEN [err |-> FALSE, b |-> raw.b]
    ELSE [err |-> TRUE, b |-> ZeroBounce]

\* The normalized record of one provider event.
EventRecord(e) ==
    IF e = "e1"
    THEN MkBounce(<<"a", "@", "b">>, EmptyStr, "hard", "sendgrid", <<"{", "k", "}">>, 2021)
    ELSE MkBounce(<<"b", "@", "a">>, EmptyStr, "soft", "sendgrid", <<"{", "k", "}">>, 2021)

\* app.bounce.Sendgrid.ProcessBounce: verifies sig over (ts + raw body),
\* then maps every event of the payload, in payload order.
SendgridProcessBounce(sig, ts, raw) ==
    IF sig # Sign(ts, raw) \/ raw.kind # "events"
    THEN [err |-> TRUE, bs |-> << >>]
    ELSE [err |-> FALSE, bs |-> [i \in 1..Len(raw.events) |-> EventRecord(raw.events[i])]]

\* --------------------------------------------------------- the dispatcher
\* Outcome of the part of handleBounceWebhook before the record loop:
\* resp is the error returned (Nil when the stage succeeded), bounces the
\* list handed to the loop, invoked the adapter calls made, in order.
Rejected(msg, invoked) ==
    [resp |-> BadRequest(msg), bounces |-> << >>, invoked |-> invoked]
\* Variant: a record equal to an earlier one of the batch is dropped.
ParsedDeduplicated(bs, invoked) ==
    LET kept[n \in 0..Len(bs)] ==
            IF n = 0 THEN << >>
            ELSE IF \E i \in 1..(n - 1) : bs[i] = bs[n] THEN kept[n - 1]
            ELSE Append(kept[n - 1], bs[n])
    IN  [resp |-> Nil, bounces |-> kept[Len(bs)], invoked |-> invoked]
Parsed(bs, invoked) ==
    [resp |-> Nil, bounces |-> bs, invoked |-> invoked]

\* case service == "": the native internal webhook.
NativeWebhook(raw, now) ==
    LET u == Unmarshal(raw)
        v == validateBounceFields(u.b)
    IN  IF u.err THEN Rejected("globals.messages.invalidData", << >>)
        ELSE IF v # Nil THEN [resp |-> v, bounces |-> << >>, invoked |-> << >>]
        ELSE Parsed(<< NativeRecord(u.b, now) >>, << >>)

\* Variant: a failed confirmation handshake is only logged.
SESWebhookHandshakeIgnored(raw, msgType, netOK) ==
    CASE msgType \in { "SubscriptionConfirmation", "UnsubscribeConfirmation" } ->
           Parsed(<< >>, << "SES.ProcessSubscription" >>)
      [] msgType = "Notification" ->
           LET r == SESProcessBounce(raw)
           IN  IF r.err
               THEN Rejected("globals.messages.invalidData", << "SES.ProcessBounce" >>)
               ELSE Parsed(<< r.b >>, << "SES.ProcessBounce" >>)
      [] OTHER -> Rejected("globals.messages.invalidData", << >>)

\* Variant: the record of a notification is not appended to bounces.
SESWebhookRecordDropped(raw, msgType, netOK) ==
    CASE msgType \in { "SubscriptionConfirmation", "UnsubscribeConfirmation" } ->
           IF SESProcessSubscription(raw, netOK) = "error"
           THEN Rejected("globals.messages.invalidData", << "SES.ProcessSubscription" >>)
           ELSE Parsed(<< >>, << "SES.ProcessSubscription" >>)
      [] msgType = "Notification" ->
           LET r == SESProcessBounce(raw)
           IN  IF r.err
               THEN Rejected("globals.messages.invalidData", << "SES.ProcessBounce" >>)
               ELSE Parsed(<< >>, << "SES.ProcessBounce" >>)
      [] OTHER -> Rejected("globals.messages.invalidData", << >>)

\* Variant: any message type that is not a confirmation is parsed as a
\* notification.
SESWebhookDefaultParsed(raw, msgType, netOK) ==
    CASE msgType \in { "SubscriptionConfirmation", "UnsubscribeConfirmation" } ->
           IF SESProcessSubscription(raw, netOK) = "error"
           THEN Rejected("globals.messages.invalidData", << "SES.ProcessSubscription" >>)
           ELSE Parsed(<< >>, << "SES.ProcessSubscription" >>)
      [] OTHER ->
           LET r == SESProcessBounce(raw)
           IN  IF r.err
               THEN Rejected("globals.messages.invalidData", << "SES.ProcessBounce" >>)
               ELSE Parsed(<< r.b >>, << "SES.ProcessBounce" >>)

\* case service == "ses" && app.constants.BounceSESEnabled
SESWebhook(raw, msgType, netOK) ==
    CASE msgType \in { "SubscriptionConfirmation", "UnsubscribeConfirmation" } ->
           IF SESProcessSubscription(raw, netOK) = "error"
           THEN Rejected("globals.messages.invalidData", << "SES.ProcessSubscription" >>)
           ELSE Parsed(<< >>, << "SES.ProcessSubscription" >>)
      [] msgType = "Notification" ->
           LET r == SESProcessBounce(raw)
           IN  IF r.err
               THEN Rejected("globals.messages.invalidData", << "SES.ProcessBounce" >>)
               ELSE Parsed(<< r.b >>, << "SES.ProcessBounce" >>)
      [] OTHER -> Rejected("globals.messages.invalidData", << >>)

\* Variant: the adapter's error is not checked.
SendgridWebhookNoErrCheck(raw, sig, ts) ==
    Parsed(SendgridProcessBounce(sig, ts, raw).bs, << "Sendgrid.ProcessBounce" >>)

\* case service == "sendgrid" && app.constants.BounceSendgridEnabled
SendgridWebhook(raw, sig, ts) ==
    LET r == SendgridProcessBounce(sig, ts, raw)
    IN  IF r.err
        THEN Rejected("globals.messages.invalidData", << "Sendgrid.ProcessBounce" >>)
        ELSE Parsed(r.bs, << "Sendgrid.ProcessBounce" >>)

\* Variant: the switch does not look at the enable flags.
ServiceSwitchNoFlags(r, k, netOK, now) ==
    CASE r.service = "" -> NativeWebhook(r.body, now)
      [] r.service = "ses" -> SESWebhook(r.body, r.msgType, netOK)
      [] r.service = "sendgrid" -> SendgridWebhook(r.body, r.sig, r.ts)
      [] OTHER -> Rejected("bounces.unknownService", << >>)

\* The `switch true` over the service and the enable flags.
ServiceSwitch(r, k, netOK, now) ==
    CASE r.service = "" -> NativeWebhook(r.body, now)
      [] r.service = "ses" /\ k.BounceSESEnabled ->
           SESWebhook(r.body, r.msgType, netOK)
      [] r.service = "sendgrid" /\ k.BounceSendgridEnabled ->
           SendgridWebhook(r.body, r.sig, r.ts)
      [] OTHER -> Rejected("bounces.unknownService", << >>)

\* Everything before the record loop: read the body, then the switch.
Dispatch(r, k, netOK, now) ==
    IF r.readErr
    THEN Rejected("globals.messages.internalError", << >>)
    ELSE ServiceSwitch(r, k, netOK, now)

\* ------------------------------------------------------------- deletion
\* Largest value of the integer type the ids are parsed into (int64, scaled).
MaxInt64 == 7
\* Largest number of repeated `id` query parameters.
MaxIds == 2

Digits == { "0", "1", "2", "9" }
DigitVal(ch) ==
    CASE ch = "0" -> 0
      [] ch = "1" -> 1
      [] ch = "2" -> 2
      [] OTHER    -> 9

RECURSIVE DecimalValue(_)
DecimalValue(ds) ==
    IF ds = << >> THEN 0
    ELSE 10 * DecimalValue(SubSeq(ds, 1, Len(ds) - 1)) + DigitVal(ds[Len(ds)])

\* strconv.ParseInt(str, 10, 64): a syntax error gives 0; a value out of
\* range gives the nearest representable value together with an error.
ParseInt(str) ==
    LET neg == Len(str) > 0 /\ str[1] = "-"
        ds  == IF neg THEN Tail(str) ELSE str
    IN  IF ds = << >> \/ \E i \in 1..Len(ds) : ds[i] \notin Digits
        THEN [val |-> 0, err |-> TRUE]
        ELSE LET v == DecimalValue(ds)
             IN  IF ~neg /\ v > MaxInt64 THEN [val |-> MaxInt64, err |-> TRUE]
                 ELSE IF neg /\ v > MaxInt64 + 1 THEN [val |-> 0 - (MaxInt64 + 1), err |-> TRUE]
                 ELSE [val |-> IF neg THEN 0 - v ELSE v, err |-> FALSE]

\* strconv.ParseBool: false together with an error for any other string.
ParseBool(str) == str \in { "1", "t", "T", "TRUE", "true", "True" }

\* parseStringIDs: every string must parse to an id of at least 1.
RECURSIVE parseStringIDs(_)
parseStringIDs(strs) ==
    IF strs = << >> THEN [err |-> FALSE, ids |-> << >>]
    ELSE LET p    == ParseInt(Head(strs))
             rest == parseStringIDs(Tail(strs))
         IN  IF p.err \/ p.val < 1 \/ rest.err
             THEN [err |-> TRUE, ids |-> << >>]
             ELSE [err |-> FALSE, ids |-> << p.val >> \o rest.ids]

\* Values of the :id path parameter ("" when the route has none).
PathIdStrings ==
    { << >>, <<"x">>, <<"0">>, <<"-", "1">>, <<"1">>, <<"2">>, <<"9">>, <<"1", "x">> }
\* Values of one `id` query parameter.
QueryIdStrings == { <<"x">>, <<"0">>, <<"1">>, <<"2">>, <<"9">> }
\* Values of the `all` query parameter ("" when absent).
AllStrings == { "", "true", "1", "false", "yes" }

\* A delete call: the path id, the `all` parameter and the `id` parameters.
MkDelReq(pID, all, ids) == [pID |-> pID, all |-> all, ids |-> ids]
DelRequests ==
    { MkDelReq(p, a, i) :
        p \in PathIdStrings, a \in AllStrings,
        i \in UNION { [1..n -> QueryIdStrings] : n \in 0..MaxIds } }
NoDelReq == MkDelReq(<< >>, "", << >>)

\* Variant: the explicit id parameters are looked at before the all flag.
DeleteIDsExplicitFirst(pID, all, ids) ==
    IF pID # << >>
    THEN LET id == ParseInt(pID).val
         IN  IF id < 1 THEN [err |-> TRUE, IDs |-> << >>]
             ELSE [err |-> FALSE, IDs |-> << id >>]
    ELSE IF ids # << >> \/ ~all
    THEN LET i == parseStringIDs(ids)
         IN  IF i.err \/ Len(i.ids) = 0 THEN [err |-> TRUE, IDs |-> << >>]
             ELSE [err |-> FALSE, IDs |-> i.ids]
    ELSE [err |-> FALSE, IDs |-> << >>]

\* Variant: an empty list of id parameters is not refused.
DeleteIDsEmptyAllowed(pID, all, ids) ==
    IF pID # << >>
    THEN LET id == ParseInt(pID).val
         IN  IF id < 1 THEN [err |-> TRUE, IDs |-> << >>]
             ELSE [err |-> FALSE, IDs |-> << id >>]
    ELSE IF ~all
    THEN LET i == parseStringIDs(ids)
         IN  IF i.err THEN [err |-> TRUE, IDs |-> << >>]
             ELSE [err |-> FALSE, IDs |-> i.ids]
    ELSE [err |-> FALSE, IDs |-> << >>]

\* The id array handleDeleteBounces assembles (lines 111-131), or the
\* invalid-id error.
DeleteIDs(pID, all, ids) ==
    IF pID # << >>
    THEN LET id == ParseInt(pID).val
         IN  IF id < 1 THEN [err |-> TRUE, IDs |-> << >>]
             ELSE [err |-> FALSE, IDs |-> << id >>]
    ELSE IF ~all
    THEN LET i == parseStringIDs(ids)
         IN  IF i.err \/ Len(i.ids) = 0 THEN [err |-> TRUE, IDs |-> << >>]
             ELSE [err |-> FALSE, IDs |-> i.ids]
    ELSE [err |-> FALSE, IDs |-> << >>]

\* echo.NewHTTPError(http.StatusInternalServerError, ...)
InternalError(msg) == MkResp(500, msg)

\* handleDeleteBounces: the request, the id arrays passed to
\* app.queries.DeleteBounces.Exec (none or one), and the response.
handleDeleteBounces(r, execOK) ==
    LET d == DeleteIDs(r.pID, ParseBool(r.all), r.ids)
    IN  IF d.err
        THEN [req |-> r, exec |-> << >>, resp |-> BadRequest("globals.messages.invalidID")]
        ELSE [req |-> r, exec |-> << d.IDs >>,
              resp |-> IF execOK THEN OkTrue
                       ELSE InternalError("globals.messages.errorDeleting")]

\* No delete call made yet.
NoDelete == [req |-> NoDelReq, exec |-> << >>, resp |-> Nil]

\* ---------------------------------------------------------------- listing
\* bounceQuerySortFields, sortAsc, sortDesc
bounceQuerySortFields == { "email", "campaign_name", "source", "created_at" }
sortAsc == "asc"
sortDesc == "desc"

\* Values of the order_by and order parameters ("" when absent).
OrderByStrings == { "", "email", "created_at", "EMAIL", "id; DROP TABLE bounces" }
OrderStrings == { "", "asc", "desc", "ASC", "id" }
\* Values of the :id path parameter of the list route.
GetIdStrings == { << >>, <<"x">>, <<"0">>, <<"-", "1">>, <<"1">>, <<"2">>, <<"9">> }
\* Results of getPagination(c.QueryParams(), 20, 50).
Paginations ==
    { [Page |-> 1, PerPage |-> 20, Offset |-> 0, Limit |-> 20],
      [Page |-> 2, PerPage |-> 50, Offset |-> 50, Limit |-> 50] }

\* A row of the bounce query: the record's id and the window total.
Row(id, total) == [id |-> id, total |-> total]
\* What persistence can answer: at most the one row of a given id, else
\* any page of rows.
ResultsFor(id) ==
    IF id > 0
    THEN { << >>, << Row(id, 1) >> }
    ELSE { << >>, << Row(1, 1) >>, << Row(2, 2), Row(1, 2) >> }

\* A list call: path id, order_by, order and the pagination.
MkGetReq(id, orderBy, order, pg) ==
    [id |-> id, orderBy |-> orderBy, order |-> order, pg |-> pg]
GetRequests ==
    { MkGetReq(i, ob, o, pg) :
        i \in GetIdStrings, ob \in OrderByStrings, o \in OrderStrings, pg \in Paginations }
NoGetReq == MkGetReq(<< >>, "", "", [Page |-> 0, PerPage |-> 0, Offset |-> 0, Limit |-> 0])

\* Variant: the sort parameters go into the statement as received.
SortParamsUnchecked(orderBy, order) == [orderBy |-> orderBy, order |-> order]

\* Sort params (lines 46-52).
SortParams(orderBy, order) ==
    [orderBy |-> IF orderBy \notin bounceQuerySortFields THEN "created_at" ELSE orderBy,
     order   |-> IF order # sortAsc /\ order # sortDesc THEN sortDesc ELSE order]

\* Responses of the list handler: the wrapper bouncesWrap, one bare record,
\* or an error.
WrapResp(results, total, perPage, page) ==
    [status |-> 200, form |-> "bouncesWrap", results |-> results,
     total |-> total, perPage |-> perPage, page |-> page]
RecordResp(row) ==
    [status |-> 200, form |-> "record", results |-> << row >>,
     total |-> 0, perPage |-> 0, page |-> 0]
ErrorResp(status) ==
    [status |-> status, form |-> "error", results |-> << >>,
     total |-> 0, perPage |-> 0, page |-> 0]
NoGetResp == ErrorResp(0)

\* Variant: the meta block is filled in for a single record too.
GetResponseAlwaysWrapped(single, results, pg) ==
    IF Len(results) = 0 THEN WrapResp(<< >>, 0, 0, 0)
    ELSE WrapResp(results, results[1].total, pg.PerPage, pg.Page)

\* The response built from the fetched rows (lines 61-75).
GetResponse(single, results, pg) ==
    IF Len(results) = 0 THEN WrapResp(<< >>, 0, 0, 0)
    ELSE IF single THEN RecordResp(results[1])
    ELSE WrapResp(results, results[1].total, pg.PerPage, pg.Page)

\* handleGetBounces: the request, the statement and arguments given to
\* db.Select, and the response; rows is what persistence returns.
handleGetBounces(r, dbOK, rows) ==
    LET id     == ParseInt(r.id).val
        single == id > 0
        sort   == SortParams(r.orderBy, r.order)
    IN  [req  |-> r,
         stmt |-> [orderBy |-> sort.orderBy, order |-> sort.order, id |-> id,
                   offset |-> r.pg.Offset, limit |-> r.pg.Limit],
         resp |-> IF ~dbOK THEN ErrorResp(500)
                  ELSE GetResponse(single, rows, r.pg)]

\* No list call made yet.
NoGet ==
    [req |-> NoGetReq,
     stmt |-> [orderBy |-> "", order |-> "", id |-> 0, offset |-> 0, limit |-> 0],
     resp |-> NoGetResp]

\* ---------------------------------------------------------------- state
VARIABLES
    constants,  \* app.constants: the per-provider enable flags
    pc,         \* per call: "idle", "recording" (in the loop) or "done"
    req,        \* per call: the request it is handling
    bounces,    \* per call: the local slice `bounces`
    idx,        \* per call: how many elements the range loop has visited
    recLog,     \* per call: the Recorder.Record calls made: record and outcome
    invoked,    \* per call: the adapter calls made
    handshake,  \* per call: result of the confirmation handshake: "none", "ok", "error"
    resp,       \* per call: the response returned (Nil while running)
    del,        \* the last handleDeleteBounces call: request, Exec calls, response
    get         \* the last handleGetBounces call: request, statement, response

hookVars == << constants, pc, req, bounces, idx, recLog, invoked, handshake, resp >>
vars == << constants, pc, req, bounces, idx, recLog, invoked, handshake, resp, del, get >>

\* The state before any call, for the calls cs.
InitOf(cs) ==
    /\ constants \in [BounceSESEnabled : BOOLEAN, BounceSendgridEnabled : BOOLEAN]
    /\ pc = [c \in cs |-> "idle"]
    /\ req = [c \in cs |-> NoReq]
    /\ bounces = [c \in cs |-> << >>]
    /\ idx = [c \in cs |-> 0]
    /\ recLog = [c \in cs |-> << >>]
    /\ invoked = [c \in cs |-> << >>]
    /\ handshake = [c \in cs |-> "none"]
    /\ resp = [c \in cs |-> Nil]
    /\ del = NoDelete
    /\ get = NoGet

Init == InitOf(Calls)

\* handleBounceWebhook up to the end of the switch: an error is returned at
\* once, otherwise the call enters the record loop.
ReceiveFrom(c, rs) ==
    /\ pc[c] = "idle"
    /\ \E r \in rs, netOK \in BOOLEAN, now \in NowYears :
         LET d == Dispatch(r, constants, netOK, now)
         IN  /\ req' = [req EXCEPT ![c] = r]
             /\ handshake' = [handshake EXCEPT ![c] =
                                IF d.invoked = << "SES.ProcessSubscription" >>
                                THEN SESProcessSubscription(r.body, netOK)
                                ELSE "none"]
             /\ bounces' = [bounces EXCEPT ![c] = d.bounces]
             /\ invoked' = [invoked EXCEPT ![c] = d.invoked]
             /\ resp' = [resp EXCEPT ![c] = d.resp]
             /\ pc' = [pc EXCEPT ![c] = IF d.resp = Nil THEN "recording" ELSE "done"]
    /\ UNCHANGED << constants, idx, recLog, del, get >>

Receive(c) == ReceiveFrom(c, Requests)

\* Variant: the loop stops at the first failed Record call.
LoopNextBreak(i, ok, n) == IF ok THEN i + 1 ELSE n

\* The loop after app.bounce.Record returned for element i + 1 of n: an
\* error is only logged, and the loop moves on to the next element.
LoopNext(i, ok, n) == i + 1

\* Variant: the slice is one package-level variable, which every call
\* appends to and ranges over.
LoopElementShared(bs, c, i) ==
    IF i + 1 <= Len(bs[1]) THEN bs[1][i + 1] ELSE bs[c][i + 1]

\* The loop variable b: element i + 1 of the call's own slice.
LoopElement(bs, c, i) == bs[c][i + 1]

\* One iteration of `for _, b := range bounces`: Recorder.Record(b), which
\* the recorder makes succeed or fail.
Record(c) ==
    /\ pc[c] = "recording"
    /\ idx[c] < Len(bounces[c])
    /\ \E ok \in BOOLEAN :
         /\ recLog' = [recLog EXCEPT ![c] = Append(@, [b |-> LoopElement(bounces, c, idx[c]), ok |-> ok])]
         /\ idx' = [idx EXCEPT ![c] = LoopNext(idx[c], ok, Len(bounces[c]))]
    /\ UNCHANGED << constants, pc, req, bounces, invoked, handshake, resp, del, get >>

\* Variant: the response reports that the last Record call failed.
LoopResponseLastFailed(log) ==
    IF Len(log) > 0 /\ ~log[Len(log)].ok
    THEN MkResp(500, "globals.messages.internalError")
    ELSE OkTrue

\* Variant: the response reports a failed Record call.
LoopResponseFailing(log) ==
    IF \E i \in 1..Len(log) : ~log[i].ok
    THEN MkResp(500, "globals.messages.internalError")
    ELSE OkTrue

\* The response after the loop.
LoopResponse(log) == OkTrue

\* return c.JSON(http.StatusOK, okResp{true})
Respond(c) ==
    /\ pc[c] = "recording"
    /\ idx[c] >= Len(bounces[c])
    /\ resp' = [resp EXCEPT ![c] = LoopResponse(recLog[c])]
    /\ pc' = [pc EXCEPT ![c] = "done"]
    /\ UNCHANGED << constants, req, bounces, idx, recLog, invoked, handshake, del, get >>

Next == \E c \in Calls : Receive(c) \/ Record(c) \/ Respond(c)

Spec == Init /\ [][Next]_vars

\* ------------------------------------------------------ concurrent calls
\* The requests of the specification of concurrent calls: one of each kind
\* that records, and two that are refused.
ConcurrentRequests ==
    { MkReq("", FALSE, BounceBody(MkBounce(<<"A", "@", "b">>, EmptyStr, "hard", "api", EmptyStr, y)),
            "", NoSig, 0) : y \in { 0, ZeroTimeYear } }
    \cup { MkReq("", FALSE, Garbage, "", NoSig, 0),
           MkReq("ses", FALSE, SnsBody, "Notification", NoSig, 0),
           MkReq("sendgrid", FALSE, EventsBody(<<"e1", "e2">>), "",
                 Sign(1, EventsBody(<<"e1", "e2">>)), 1),
           MkReq("sendgrid", FALSE, EventsBody(<<"e1", "e1">>), "",
                 Sign(1, EventsBody(<<"e1", "e1">>)), 1),
           MkReq("sendgrid", FALSE, EventsBody(<<"e1", "e2">>), "", NoSig, 1) }

InitConcurrent == InitOf(ConcurrentCalls)

NextConcurrent ==
    \E c \in ConcurrentCalls :
        ReceiveFrom(c, ConcurrentRequests) \/ Record(c) \/ Respond(c)

\* Several webhook calls handled at once, their steps interleaved.
SpecConcurrent == InitConcurrent /\ [][NextConcurrent]_vars

\* One whole handleDeleteBounces call; the persistence layer makes the
\* delete statement succeed or fail.
Delete ==
    /\ del = NoDelete
    /\ \E r \in DelRequests, execOK \in BOOLEAN :
         del' = handleDeleteBounces(r, execOK)
    /\ UNCHANGED << hookVars, get >>

\* The response is delivered; the handler keeps nothing of the call.
DeleteReturn ==
    /\ del # NoDelete
    /\ del' = NoDelete
    /\ UNCHANGED << hookVars, get >>

NextDelete == Delete \/ DeleteReturn

\* The deletion API on its own.
SpecDelete == Init /\ [][NextDelete]_vars

\* One whole handleGetBounces call; persistence fails or returns rows.
Get ==
    /\ get = NoGet
    /\ \E r \in GetRequests, dbOK \in BOOLEAN :
         \E rows \in ResultsFor(ParseInt(r.id).val) :
             get' = handleGetBounces(r, dbOK, rows)
    /\ UNCHANGED << hookVars, del >>

\* The response is delivered; the handler keeps nothing of the call.
GetReturn ==
    /\ get # NoGet
    /\ get' = NoGet
    /\ UNCHANGED << hookVars, del >>

NextList == Get \/ GetReturn

\* The list API on its own.
SpecList == Init /\ [][NextList]_vars

\* =============================================================== claims
\* Vocabulary of the claims.
Started(c) == pc[c] # "idle"
Done(c) == pc[c] = "done"
UnknownService(r) == r = BadRequest("bounces.unknownService")
\* A client error other than unknown-service.
InvalidInput(r) == r.status = 400 /\ r.msg # "bounces.unknownService"
\* The records passed to Recorder.Record so far, in call order.
Recorded(c) == [i \in 1..Len(recLog[c]) |-> recLog[c][i].b]
AllFailed(c) == \A i \in 1..Len(recLog[c]) : ~recLog[c][i].ok

Enabled(service) ==
    \/ service = "ses" /\ constants.BounceSESEnabled
    \/ service = "sendgrid" /\ constants.BounceSendgridEnabled
SigVerifies(r) == r.sig = Sign(r.ts, r.body)

\* The parsing/authentication stage of call c succeeded, told from the
\* request alone.
StageSucceeded(c) ==
    LET r == req[c]
    IN  /\ ~r.readErr
        /\ \/ /\ r.service = ""
              /\ r.body.kind \in { "bounce", "sns" }
              /\ validateBounceFields(Unmarshal(r.body).b) = Nil
           \/ /\ r.service = "ses"
              /\ Enabled("ses")
              /\ \/ r.msgType = "Notification" /\ r.body.kind = "sns"
                 \/ /\ r.msgType \in { "SubscriptionConfirmation", "UnsubscribeConfirmation" }
                    /\ handshake[c] = "ok"
           \/ /\ r.service = "sendgrid"
              /\ Enabled("sendgrid")
              /\ SigVerifies(r)
              /\ r.body.kind = "events"

\* C1: a webhook call (native, ses, sendgrid) whose parsing/authentication
\* stage succeeded answers 200/true once it is done, whichever of its
\* Recorder.Record calls failed, and returns no error while it records.
C1_SuccessDespiteRecordFailures ==
    \A c \in Calls :
        (Started(c) /\ StageSucceeded(c)) =>
            /\ Done(c) => resp[c] = OkTrue
            /\ ~Done(c) => resp[c] = Nil

\* C1 witness: a finished call all of whose two Record calls failed.
C1_Witness ==
    \E c \in Calls :
        /\ Done(c) /\ StageSucceeded(c)
        /\ Len(recLog[c]) = 2 /\ AllFailed(c)
        /\ resp[c] = OkTrue

\* The events of a signed-webhook payload the adapter accepted, as records.
AdapterList(c) ==
    [i \in 1..Len(req[c].body.events) |-> EventRecord(req[c].body.events[i])]
SendgridAccepted(c) ==
    /\ Started(c)
    /\ req[c].service = "sendgrid" /\ Enabled("sendgrid") /\ ~req[c].readErr
    /\ SigVerifies(req[c]) /\ req[c].body.kind = "events"

\* C2: for a signed-webhook call whose adapter returned n events, the
\* Record calls made so far are the first events of the payload, in payload
\* order, and the call does not finish before all n are made, whether or
\* not earlier Record calls failed.
C2_OneRecordPerEventInOrder ==
    \A c \in Calls :
        SendgridAccepted(c) =>
            /\ Len(recLog[c]) <= Len(AdapterList(c))
            /\ Recorded(c) = SubSeq(AdapterList(c), 1, Len(recLog[c]))
            /\ Done(c) => Recorded(c) = AdapterList(c)

\* C2 witness: two different events, the first Record failed, the second
\* was still made.
C2_Witness ==
    \E c \in Calls :
        /\ SendgridAccepted(c) /\ Done(c)
        /\ req[c].body.events = << "e2", "e1" >>
        /\ ~recLog[c][1].ok
        /\ Recorded(c) = << EventRecord("e2"), EventRecord("e1") >>

Disabled(c) ==
    /\ Started(c)
    /\ req[c].service \in { "ses", "sendgrid" }
    /\ ~Enabled(req[c].service)
NothingDone(c) ==
    invoked[c] = << >> /\ recLog[c] = << >> /\ bounces[c] = << >> /\ handshake[c] = "none"

\* C3 (as stated): a call naming a disabled non-native provider always
\* fails with UnknownService, never InvalidInput, for every body and header;
\* no adapter is invoked and nothing is recorded.
C3_Original ==
    \A c \in Calls :
        Disabled(c) => Done(c) /\ UnknownService(resp[c]) /\ NothingDone(c)

\* C3 (amended): a call naming a disabled non-native provider whose body
\* could be read fails with UnknownService; when reading the body fails the
\* call fails with the 400 internal-error answer before the service is
\* looked at; either way no adapter is invoked and nothing is recorded.
C3_DisabledIsUnknownService ==
    \A c \in Calls :
        Disabled(c) =>
            /\ Done(c) /\ NothingDone(c)
            /\ ~req[c].readErr => UnknownService(resp[c])
            /\ req[c].readErr => resp[c] = BadRequest("globals.messages.internalError")

\* C3 witness: a disabled provider is sent a notification that it would
\* accept when enabled.
C3_Witness ==
    \E c \in Calls :
        /\ Disabled(c) /\ req[c].service = "ses"
        /\ req[c].msgType = "Notification" /\ req[c].body = SnsBody
        /\ UnknownService(resp[c])

\* The adapter of signed-webhook call c was invoked and returned an error
\* (which it does for every signature that does not verify).
SendgridAdapterFailed(c) ==
    /\ Started(c) /\ invoked[c] = << "Sendgrid.ProcessBounce" >>
    /\ SendgridProcessBounce(req[c].sig, req[c].ts, req[c].body).err

\* C4: a signed-webhook call whose signature does not verify over
\* timestamp + raw body, so that the adapter returns an error, is rejected
\* as InvalidInput and makes no Record call, whatever the payload.
C4_BadSignatureRejected ==
    \A c \in Calls :
        SendgridAdapterFailed(c) =>
            /\ Done(c)
            /\ InvalidInput(resp[c])
            /\ recLog[c] = << >> /\ bounces[c] = << >>

\* C4 witness: a well-formed two-event payload under a signature made for
\* another timestamp.
C4_Witness ==
    \E c \in Calls :
        /\ SendgridAdapterFailed(c) /\ ~SigVerifies(req[c])
        /\ req[c].body = EventsBody(<< "e1", "e2" >>)
        /\ req[c].sig = Sign(2, req[c].body) /\ req[c].ts = 1
        /\ resp[c] = BadRequest("globals.messages.invalidData")

ConfirmationTypes == { "SubscriptionConfirmation", "UnsubscribeConfirmation" }
EnabledSES(c) ==
    Started(c) /\ req[c].service = "ses" /\ Enabled("ses")

\* C5: an enabled cloud-relay call with a confirmation message type never
\* makes a Record call; when the handshake succeeds the call answers
\* 200/true with zero records, when it fails the call fails as InvalidInput.
C5_ConfirmationNeverRecords ==
    \A c \in Calls :
        (EnabledSES(c) /\ req[c].msgType \in ConfirmationTypes) =>
            /\ recLog[c] = << >> /\ bounces[c] = << >>
            /\ handshake[c] = "ok" =>
                 /\ Done(c) => resp[c] = OkTrue
                 /\ ~Done(c) => resp[c] = Nil
            /\ handshake[c] = "error" => Done(c) /\ InvalidInput(resp[c])
            /\ handshake[c] = "none" => req[c].readErr

\* C5 witness: the handshake failed on an envelope the parser would accept,
\* and the call was refused.
C5_Witness ==
    \E c \in Calls :
        /\ EnabledSES(c) /\ req[c].msgType = "SubscriptionConfirmation"
        /\ req[c].body = SnsBody
        /\ handshake[c] = "error"
        /\ resp[c] = BadRequest("globals.messages.invalidData")

NotificationParsed(c) ==
    /\ EnabledSES(c) /\ ~req[c].readErr
    /\ req[c].msgType = "Notification"
    /\ ~SESProcessBounce(req[c].body).err

\* C6: an enabled cloud-relay call with message type Notification whose
\* envelope the adapter accepts makes exactly one Record call, with the
\* record the adapter returned, and performs no confirmation handshake.
C6_NotificationRecordsOnce ==
    \A c \in Calls :
        NotificationParsed(c) =>
            /\ invoked[c] = << "SES.ProcessBounce" >>
            /\ handshake[c] = "none"
            /\ Len(recLog[c]) <= 1
            /\ Recorded(c) = SubSeq(<< SESProcessBounce(req[c].body).b >>, 1, Len(recLog[c]))
            /\ Done(c) => Len(recLog[c]) = 1 /\ resp[c] = OkTrue

\* C6 witness: the call is over and its one record went to the recorder.
C6_Witness ==
    \E c \in Calls :
        /\ NotificationParsed(c) /\ Done(c)
        /\ Recorded(c) = << SnsBounce >>

\* C7: an enabled cloud-relay call whose message-type header is none of
\* the three known values (an absent header included) is rejected as
\* InvalidInput; neither the handshake nor the bounce parser is invoked and
\* nothing is recorded.
C7_UnknownMessageTypeRejected ==
    \A c \in Calls :
        (EnabledSES(c) /\ req[c].msgType \notin ConfirmationTypes \cup { "Notification" }) =>
            Done(c) /\ InvalidInput(resp[c]) /\ NothingDone(c)

\* C7 witness: a well-formed envelope under a header that differs from
\* Notification only in case.
C7_Witness ==
    \E c \in Calls :
        /\ EnabledSES(c) /\ req[c].msgType = "notification"
        /\ req[c].body = SnsBody
        /\ resp[c] = BadRequest("globals.messages.invalidData")

\* The native call c decoded its body into a record.
NativeDecoded(c) ==
    /\ Started(c) /\ req[c].service = "" /\ ~req[c].readErr
    /\ req[c].body.kind \in { "bounce", "sns" }
\* The record the native call c submitted.
Submitted(c) == IF req[c].body.kind = "bounce" THEN req[c].body.b ELSE ZeroBounce
\* The three ways a record fails the Validator.
FailsValidator(b) ==
    \/ b.Email = EmptyStr /\ b.SubscriberUUID = EmptyStr
    \/ b.Email # EmptyStr /\ ~IsEmail(b.Email)
    \/ b.SubscriberUUID # EmptyStr /\ ~reUUIDMatch(b.SubscriberUUID)

\* C8: every native input that fails the Validator (both identifiers
\* empty, or a non-empty invalid email, or a non-empty subscriberUUID off
\* the UUID pattern) is rejected as a client error and makes no Record call.
C8_InvalidNativeRejected ==
    \A c \in Calls :
        (NativeDecoded(c) /\ FailsValidator(Submitted(c))) =>
            /\ Done(c) /\ resp[c].status = 400
            /\ recLog[c] = << >> /\ bounces[c] = << >>

\* C8 witness: a valid email next to a malformed subscriberUUID.
C8_Witness ==
    \E c \in Calls :
        /\ NativeDecoded(c)
        /\ IsEmail(Submitted(c).Email)
        /\ Submitted(c).SubscriberUUID = <<"f", "-", "z">>
        /\ resp[c] = BadRequest("globals.messages.invalidUUID")

\* The Validator accepted the record of native call c.
Accepted(c) == NativeDecoded(c) /\ (pc[c] = "recording" \/ resp[c] = OkTrue)

\* C9 (as stated): the Validator accepts a record only if exactly one of
\* email and subscriberUUID is non-empty.
C9_Original ==
    \A c \in Calls :
        Accepted(c) =>
            (Submitted(c).Email = EmptyStr) # (Submitted(c).SubscriberUUID = EmptyStr)

\* C9 (amended): the Validator accepts a record exactly when at least one
\* of email and subscriberUUID is non-empty and every non-empty one is well
\* formed; both empty is rejected, both non-empty and well formed is
\* accepted.
C9_AtLeastOneIdentifier ==
    \A c \in Calls :
        NativeDecoded(c) =>
            (Accepted(c) <=>
                /\ Submitted(c).Email # EmptyStr \/ Submitted(c).SubscriberUUID # EmptyStr
                /\ Submitted(c).Email = EmptyStr \/ IsEmail(Submitted(c).Email)
                /\ Submitted(c).SubscriberUUID = EmptyStr
                     \/ reUUIDMatch(Submitted(c).SubscriberUUID))

\* C9 witness: a record with both identifiers was accepted and recorded.
C9_Witness ==
    \E c \in Calls :
        /\ Accepted(c) /\ Done(c)
        /\ Submitted(c).Email # EmptyStr /\ Submitted(c).SubscriberUUID # EmptyStr
        /\ Len(recLog[c]) = 1

UpperChars == { "A", "B" }
\* out is the lowercase form of in.
IsLowercaseOf(out, in) ==
    /\ Len(out) = Len(in)
    /\ \A i \in 1..Len(in) :
         /\ out[i] \notin UpperChars
         /\ in[i] \notin UpperChars => out[i] = in[i]
         /\ in[i] = "A" => out[i] = "a"
         /\ in[i] = "B" => out[i] = "b"

\* C10: for every accepted native input the record handed to
\* Recorder.Record carries the lowercase form of the submitted email, and
\* the submitted subscriberUUID, type, source, a supplied meta and a
\* supplied createdAt unchanged.
C10_RecordedEmailLowercase ==
    \A c \in Calls :
        Accepted(c) =>
            /\ Len(bounces[c]) = 1
            /\ \A i \in 1..Len(recLog[c]) : recLog[c][i].b = bounces[c][1]
            /\ Done(c) => Len(recLog[c]) = 1
            /\ LET b == bounces[c][1]
                   in == Submitted(c)
               IN  /\ IsLowercaseOf(b.Email, in.Email)
                   /\ b.SubscriberUUID = in.SubscriberUUID
                   /\ b.Type = in.Type
                   /\ b.Source = in.Source
                   /\ in.Meta # EmptyStr => b.Meta = in.Meta
                   /\ in.CreatedAt \notin { 0, ZeroTimeYear } => b.CreatedAt = in.CreatedAt

\* C10 witness: a mixed-case email was recorded in lowercase.
C10_Witness ==
    \E c \in Calls :
        /\ Accepted(c) /\ Done(c)
        /\ Submitted(c).Email = <<"A", "@", "b">>
        /\ Recorded(c)[1].Email = <<"a", "@", "b">>

\* C11: for every accepted native input with no meta field (a meta of
\* length 0) the record handed to Recorder.Record has meta equal to the
\* empty object; a supplied non-empty meta is passed through unchanged.
C11_MetaDefaultsToEmptyObject ==
    \A c \in Calls :
        Accepted(c) =>
            /\ Len(bounces[c]) = 1
            /\ Submitted(c).Meta = EmptyStr => bounces[c][1].Meta = <<"{", "}">>
            /\ Submitted(c).Meta # EmptyStr => bounces[c][1].Meta = Submitted(c).Meta
            /\ \A i \in 1..Len(recLog[c]) : recLog[c][i].b.Meta = bounces[c][1].Meta

\* C11 witness: a payload without meta was recorded with meta {}.
C11_Witness ==
    \E c \in Calls :
        /\ Accepted(c) /\ Done(c)
        /\ Submitted(c).Meta = EmptyStr
        /\ Len(recLog[c]) = 1
        /\ recLog[c][1].b.Meta = <<"{", "}">>

\* C12: for every accepted native input whose payload supplies no
\* createdAt (the decoded timestamp is the zero time), the record handed to
\* Recorder.Record has createdAt set to the current time, never the zero
\* timestamp.
C12_CreatedAtDefaultsToNow ==
    \A c \in Calls :
        (Accepted(c) /\ Submitted(c).CreatedAt = ZeroTimeYear) =>
            /\ bounces[c][1].CreatedAt \in NowYears
            /\ \A i \in 1..Len(recLog[c]) : recLog[c][i].b.CreatedAt \in NowYears

\* ------------------------------------------------- claims on deletion
DelCalled == del # NoDelete
\* Strings of the `all` parameter that set the flag.
AllSet == { "true", "1" }
InvalidID == BadRequest("globals.messages.invalidID")
\* The delete statement ran exactly once, with this id array.
ExecutedWith(ids) == del.exec = << ids >>
NeverExecuted == del.exec = << >>
\* Every `id` parameter is a positive number in range.
GoodIds(strs) ==
    \A i \in 1..Len(strs) : ~ParseInt(strs[i]).err /\ ParseInt(strs[i]).val >= 1
IdsOf(strs) == [i \in 1..Len(strs) |-> ParseInt(strs[i]).val]

\* C13: without a path id and without id parameters, all=true runs the
\* delete statement with an empty id array, while a call without the all
\* flag is rejected as invalid-id and the statement never runs.
C13_AllVersusNoIds ==
    (DelCalled /\ del.req.pID = << >> /\ del.req.ids = << >>) =>
        /\ del.req.all \in AllSet =>
             ExecutedWith(<< >>) /\ del.resp.status \in { 200, 500 }
        /\ del.req.all \notin AllSet =>
             NeverExecuted /\ del.resp = InvalidID

\* C13 witness: all=true alone deleted with the empty id array.
C13_Witness ==
    /\ del.req = MkDelReq(<< >>, "true", << >>)
    /\ ExecutedWith(<< >>)
    /\ del.resp = OkTrue

\* C14 (as stated): explicit id parameters take priority over the all
\* flag: without a path id, valid id parameters together with all=true run
\* the delete statement with exactly those ids.
C14_Original ==
    (/\ DelCalled /\ del.req.pID = << >>
     /\ del.req.ids # << >> /\ GoodIds(del.req.ids)
     /\ del.req.all \in AllSet) =>
        ExecutedWith(IdsOf(del.req.ids))

\* C14 (amended): the mode is resolved in the order path id, all flag,
\* explicit id parameters: a positive path id runs the statement with that
\* id alone; without a path id, all=true runs it with the empty id array
\* whatever id parameters are given; valid id parameters are used only when
\* the all flag is not set.
C14_PathThenAllThenIds ==
    DelCalled =>
        /\ del.req.pID \in { <<"1">>, <<"2">> } =>
             ExecutedWith(<< ParseInt(del.req.pID).val >>)
        /\ (del.req.pID = << >> /\ del.req.all \in AllSet) =>
             ExecutedWith(<< >>)
        /\ (/\ del.req.pID = << >> /\ del.req.all \notin AllSet
            /\ del.req.ids # << >> /\ GoodIds(del.req.ids)) =>
             ExecutedWith(IdsOf(del.req.ids))

\* C14 witness: ids 1 and 2 were named next to all=true and the statement
\* ran with the empty id array.
C14_Witness ==
    /\ del.req = MkDelReq(<< >>, "true", << <<"1">>, <<"2">> >>)
    /\ ExecutedWith(<< >>)

\* C18: with a path id, a positive parseable id runs the delete statement
\* with exactly that id, whatever the id parameters and the all flag; a
\* non-positive or unparseable path id is rejected as invalid-id and the
\* statement never runs.
C18_PathIdAloneDecides ==
    (DelCalled /\ del.req.pID # << >>) =>
        IF ~ParseInt(del.req.pID).err /\ ParseInt(del.req.pID).val >= 1
        THEN ExecutedWith(<< ParseInt(del.req.pID).val >>)
        ELSE NeverExecuted /\ del.resp = InvalidID

\* -------------------------------------------------- claims on listing
GetCalled == get # NoGet
\* A positive id was supplied: the single-record form.
SingleForm == ParseInt(get.req.id).val > 0
\* The response carries the pagination metadata of the request.
CarriesMeta ==
    /\ get.resp.form = "bouncesWrap"
    /\ get.resp.page = get.req.pg.Page
    /\ get.resp.perPage = get.req.pg.PerPage
\* The empty result: the wrapper with no rows and zero total, page and
\* page size.
EmptyResult ==
    /\ get.resp.form = "bouncesWrap"
    /\ get.resp.results = << >>
    /\ get.resp.total = 0 /\ get.resp.page = 0 /\ get.resp.perPage = 0

\* C15: whatever order_by and order are requested, the sort field put into
\* the statement is in the allow-list or is the default created_at, the
\* direction is asc or desc (desc unless asc or desc was requested), a value
\* outside the allow-list is never put into the statement and never makes
\* the request fail as a client error.
C15_SortParamsAllowListed ==
    GetCalled =>
        /\ get.stmt.orderBy \in bounceQuerySortFields \cup { "created_at" }
        /\ get.stmt.order \in { "asc", "desc" }
        /\ get.req.orderBy \in bounceQuerySortFields => get.stmt.orderBy = get.req.orderBy
        /\ get.req.orderBy \notin bounceQuerySortFields => get.stmt.orderBy = "created_at"
        /\ get.req.order \in { "asc", "desc" } => get.stmt.order = get.req.order
        /\ get.req.order \notin { "asc", "desc" } => get.stmt.order = "desc"
        /\ get.resp.status \in { 200, 500 }

\* C15 witness: an SQL fragment sent as order_by was replaced by created_at
\* and the call succeeded.
C15_Witness ==
    /\ get.req.orderBy = "id; DROP TABLE bounces"
    /\ get.req.order = "ASC"
    /\ get.stmt.orderBy = "created_at" /\ get.stmt.order = "desc"
    /\ get.resp.status = 200

\* C16 (as stated): with a positive id the response is never the
\* paginated wrapper, also when persistence returns no row for the id.
C16_Original ==
    (GetCalled /\ get.resp.status = 200 /\ SingleForm) =>
        get.resp.form # "bouncesWrap"

\* C16 (amended): total, page and page size are filled in only in the list
\* form with at least one row.  With a positive id the response is the bare
\* first row when persistence returns one, and the wrapper with an empty
\* result list and zero total/page/per-page when it returns none.
C16_MetaOnlyInListForm ==
    (GetCalled /\ get.resp.status = 200) =>
        /\ CarriesMeta => ~SingleForm
        /\ SingleForm =>
             \/ get.resp.form = "record" /\ Len(get.resp.results) = 1
             \/ EmptyResult
        /\ (~SingleForm /\ get.resp.results # << >>) =>
             CarriesMeta /\ get.resp.total = get.resp.results[1].total

\* C16 witness: a positive id for which persistence had no row.
C16_Witness ==
    /\ GetCalled /\ SingleForm /\ get.req.id = <<"2">>
    /\ get.resp.status = 200
    /\ EmptyResult

\* ------------------------------------- claims across webhook calls
\* C19: on every webhook path Recorder.Record is called only after the
\* whole dispatch stage succeeded: a call that answers with an error has
\* made no Record call, and a call that made one never answers with an
\* error.
C19_NoRecordBeforeError ==
    \A c \in Calls :
        /\ resp[c].status >= 400 => recLog[c] = << >> /\ idx[c] = 0
        /\ recLog[c] # << >> => resp[c] \in { Nil, OkTrue }

\* C19 witness: the relay adapter refused a notification and nothing was
\* recorded.
C19_Witness ==
    \E c \in Calls :
        /\ Done(c) /\ invoked[c] = << "SES.ProcessBounce" >>
        /\ resp[c] = BadRequest("globals.messages.invalidData")
        /\ recLog[c] = << >>

Succeeded(c) == Done(c) /\ resp[c] = OkTrue
\* Number of records the dispatch stage of call c obtained, told from the
\* request.
AdapterCount(c) ==
    CASE req[c].service = "" -> 1
      [] req[c].service = "ses" -> IF req[c].msgType = "Notification" THEN 1 ELSE 0
      [] OTHER -> Len(req[c].body.events)
RECURSIVE RecordCallsOfFirst(_)
RecordCallsOfFirst(n) ==
    IF n = 0 THEN 0
    ELSE RecordCallsOfFirst(n - 1) + (IF Succeeded(n) THEN Len(recLog[n]) ELSE 0)
RECURSIVE AdapterRecordsOfFirst(_)
AdapterRecordsOfFirst(n) ==
    IF n = 0 THEN 0
    ELSE AdapterRecordsOfFirst(n - 1) + (IF Succeeded(n) THEN AdapterCount(n) ELSE 0)
\* Two finished calls carried the same payload, which yields records.
SamePayloadTwice(c1, c2) ==
    /\ c1 # c2 /\ Succeeded(c1) /\ Done(c2)
    /\ req[c1] = req[c2]
    /\ bounces[c1] # << >>
\* The createdAt of the native call c is the current time of the call.
TimeDefaulted(c) == req[c].service = "" /\ Submitted(c).CreatedAt = 0
SameButCreatedAt(b1, b2) ==
    [b1 EXCEPT !.CreatedAt = 0] = [b2 EXCEPT !.CreatedAt = 0]
CountsAgree ==
    RecordCallsOfFirst(NumConcurrent) = AdapterRecordsOfFirst(NumConcurrent)

C20_CallsAreIndependent ==
    \A c \in ConcurrentCalls :
        Started(c) =>
            \E netOK \in BOOLEAN, now \in NowYears :
                LET alone == Dispatch(req[c], constants, netOK, now)
                IN  /\ invoked[c] = alone.invoked
                    /\ Len(recLog[c]) <= Len(alone.bounces)
                    /\ Recorded(c) = SubSeq(alone.bounces, 1, Len(recLog[c]))
                    /\ ~Done(c) => resp[c] = Nil /\ alone.resp = Nil
                    /\ Done(c) =>
                         IF alone.resp = Nil
                         THEN resp[c] = OkTrue /\ Recorded(c) = alone.bounces
                         ELSE resp[c] = alone.resp

\* C20 witness: two calls are both in the middle of their record loops.
C20_Witness ==
    /\ pc[1] = "recording" /\ pc[2] = "recording"
    /\ Len(bounces[1]) = 2 /\ Len(recLog[1]) = 1
    /\ Len(bounces[2]) = 2 /\ Len(recLog[2]) = 1
    /\ bounces[1] # bounces[2]

====
